---- MODULE Spec2Model ----
(***************************************************************************)
(* A model of the findhub backend: the account store (User, UserProfile,   *)
(* UserSettings), the registration, login and password-change serializers, *)
(* and the party store (Party, PartyRSVP, PartyLike) with the derived      *)
(* properties of User and Party.                                           *)
(*                                                                         *)
(* Strings whose letter case matters (emails, usernames) are sequences of  *)
(* one-character strings, so that lower(), iexact and exact matching are   *)
(* different computations.  Timestamps are naturals; NoneTime stands for   *)
(* a null DateTimeField.                                                   *)
(***************************************************************************)
EXTENDS Integers, Sequences, FiniteSets, Bags, TLC

VARIABLES
    users,        \* table users: set of User rows
    profiles,     \* table user_profiles: set of UserProfile rows
    settings,     \* table of UserSettings rows
    backend,      \* the authentication backend the deployment configures
    now,          \* timezone.now()
    response,     \* outcome of the last request
    parties,      \* table parties: set of Party rows
    party_rsvps,  \* table party_rsvps: bag of PartyRSVP rows
    party_likes,  \* table party_likes: bag of PartyLike rows
    categories,   \* table party_categories: set of PartyCategory rows
    party_comments, \* table party_comments: set of PartyComment rows
    next_id,      \* the primary keys handed out so far, per table
    inflight      \* registration requests between is_valid() and save()

vars == <<users, profiles, settings, backend, now, response,
          parties, party_rsvps, party_likes,
          categories, party_comments, next_id, inflight>>

----------------------------------------------------------------------------
(* Bounds *)

MaxUsers == 2
MaxTime == 2
MaxPlusOnes == 1

(* A null DateTimeField (premium_expires_at, rsvp_deadline). *)
NoneTime == -1

Times == 0..MaxTime
OptTimes == {NoneTime} \cup Times

----------------------------------------------------------------------------
(* Strings with letter case *)

LowerChar(c) ==
    CASE c = "A" -> "a"
      [] c = "B" -> "b"
      [] c = "U" -> "u"
      [] c = "X" -> "x"
      [] OTHER -> c

UpperChar(c) ==
    CASE c = "a" -> "A"
      [] c = "b" -> "B"
      [] c = "c" -> "C"
      [] c = "u" -> "U"
      [] c = "v" -> "V"
      [] c = "w" -> "W"
      [] c = "x" -> "X"
      [] OTHER -> c

(* str.lower() *)
Lower(s) == [i \in DOMAIN s |-> LowerChar(s[i])]

Upper(s) == [i \in DOMAIN s |-> UpperChar(s[i])]

(* The __iexact lookup: a case-insensitive exact match of column and value *)
IExact(column, value) == Upper(column) = Upper(value)

(* Request inputs: <<local part, domain>> of an email; usernames; passwords *)
Emails == {<<"a", "x">>, <<"A", "x">>, <<"b", "X">>, <<"c", "x">>}
Usernames == {<<"u">>, <<"U">>, <<"v">>, <<"w">>}
Passwords == {"pw1", "pw2", "123"}

(* The passwords of the registration runs, and the accounts of the login runs *)
RegPasswords == {"pw1", "123"}
Accounts == {<<<<"a", "x">>, <<"u">>>>, <<<<"b", "X">>, <<"v">>>>, <<<<"c", "x">>, <<"w">>>>}

----------------------------------------------------------------------------
(* Credentials *)

(* validate_password: the password policy; an all-digit password is refused *)
ValidatePassword(p) == p # "123"

(* set_password stores a hash of the raw password *)
MakePassword(raw) == <<"hash", raw>>

(* check_password *)
CheckPassword(raw, encoded) == encoded = MakePassword(raw)

----------------------------------------------------------------------------
(* The account store *)

UserIds == 1..MaxUsers

NextUserId == Cardinality(users) + 1

UserById(id) == CHOOSE u \in users : u.id = id

ProfilesOf(uid) == {p \in profiles : p.user = uid}
SettingsOf(uid) == {s \in settings : s.user = uid}

(* User.objects.create_user: the row a registration stores *)
NewUser(id, email, username, password) ==
    [id |-> id, email |-> email, username |-> username,
     password |-> MakePassword(password),
     is_active |-> TRUE, is_premium |-> FALSE,
     premium_expires_at |-> NoneTime, last_active |-> now]

----------------------------------------------------------------------------
(* Responses *)

NoUser == 0

Resp(op, status, errors, user) ==
    [op |-> op, status |-> status, errors |-> errors, user |-> user]

(* Tables the account requests leave alone *)
PartyTables == <<parties, party_rsvps, party_likes,
                 categories, party_comments, next_id, inflight>>

----------------------------------------------------------------------------
(* UserRegistrationSerializer *)

(* email = EmailField(validators=[UniqueValidator(queryset=User.objects.all())]) *)
UniqueEmailValidator(value) ==
    IF \E u \in users : u.email = value
    THEN {<<"email", "This field must be unique.">>}
    ELSE {}

(* validate_email with an exact lookup in place of the iexact one *)
validate_email_errors_exact(value) ==
    IF \E u \in users : u.email = value
    THEN {<<"email", "A user with this email already exists.">>}
    ELSE {}

(* validate_email: the error it raises, if any *)
validate_email_errors(value) ==
    IF \E u \in users : IExact(u.email, value)
    THEN {<<"email", "A user with this email already exists.">>}
    ELSE {}

(* validate_email: the value it returns *)
validate_email(value) == Lower(value)

(* username: the model field is unique, so the ModelSerializer validates it *)
UniqueUsernameValidator(value) ==
    IF \E u \in users : u.username = value
    THEN {<<"username", "A user with that username already exists.">>}
    ELSE {}

(* validate_username: the error it raises, if any *)
validate_username_errors(value) ==
    IF \E u \in users : IExact(u.username, value)
    THEN {<<"username", "A user with this username already exists.">>}
    ELSE {}

(* password = CharField(validators=[validate_password]) *)
PasswordFieldErrors(field, value) ==
    IF ValidatePassword(value) THEN {}
    ELSE {<<field, "This password is entirely numeric.">>}

(* Field validation: a field's validators run first, its validate_<field> *)
(* method only when they pass; every field's errors are collected.        *)
RegistrationFieldErrors(email, username, password) ==
    LET e1 == UniqueEmailValidator(email)
        u1 == UniqueUsernameValidator(username)
    IN  (IF e1 # {} THEN e1 ELSE validate_email_errors(email))
        \cup (IF u1 # {} THEN u1 ELSE validate_username_errors(username))
        \cup PasswordFieldErrors("password", password)

(* validate without the comparison of the two password fields *)
RegistrationValidate_unchecked(password, password_confirm) == {}

(* validate: the cross-field check, run only when no field failed *)
RegistrationValidate(password, password_confirm) ==
    IF password # password_confirm
    THEN {<<"password", "Password fields didn't match.">>}
    ELSE {}

RegistrationErrors(email, username, password, password_confirm) ==
    LET fe == RegistrationFieldErrors(email, username, password)
    IN  IF fe # {} THEN fe ELSE RegistrationValidate(password, password_confirm)

Faults == {"none", "profile", "settings"}

(* The store after a request, and the response to it *)
Outcome(us, ps, ss, resp) ==
    [users |-> us, profiles |-> ps, settings |-> ss, response |-> resp]

(* create without the UserSettings write *)
create_without_settings(email, username, password, fault) ==
    LET user == NewUser(NextUserId, email, username, password)
        profile == [id |-> Cardinality(profiles) + 1, user |-> NextUserId]
    IN  IF \E u \in users : u.email = email \/ u.username = username
        THEN Outcome(users, profiles, settings,
                     Resp("register", 500, {<<"db", "IntegrityError">>}, NoUser))
        ELSE Outcome(users \cup {user}, profiles \cup {profile}, settings,
                     Resp("register", 201, {}, NextUserId))

(* create: three store writes in a row, each committed on its own: the     *)
(* method opens no transaction.  fault names the write that raises.        *)
create(email, username, password, fault) ==
    LET user == NewUser(NextUserId, email, username, password)
        profile == [id |-> Cardinality(profiles) + 1, user |-> NextUserId]
        setting == [id |-> Cardinality(settings) + 1, user |-> NextUserId]
    IN  IF \E u \in users : u.email = email \/ u.username = username
        THEN Outcome(users, profiles, settings,
                     Resp("register", 500, {<<"db", "IntegrityError">>}, NoUser))
        ELSE IF fault = "profile"
        THEN Outcome(users \cup {user}, profiles, settings,
                     Resp("register", 500, {<<"db", "DatabaseError">>}, NoUser))
        ELSE IF fault = "settings"
        THEN Outcome(users \cup {user}, profiles \cup {profile}, settings,
                     Resp("register", 500, {<<"db", "DatabaseError">>}, NoUser))
        ELSE Outcome(users \cup {user}, profiles \cup {profile},
                     settings \cup {setting},
                     Resp("register", 201, {}, NextUserId))

(* A registration request: is_valid(), then save() *)
RegisterResult(email, username, password, password_confirm, fault) ==
    LET errors == RegistrationErrors(email, username, password, password_confirm)
    IN  IF errors # {}
        THEN Outcome(users, profiles, settings,
                     Resp("register", 400, errors, NoUser))
        ELSE create(validate_email(email), username, password, fault)

Register(email, username, password, password_confirm, fault) ==
    \E r \in {RegisterResult(email, username, password, password_confirm, fault)} :
        /\ Cardinality(r.users) <= MaxUsers
        /\ users' = r.users
        /\ profiles' = r.profiles
        /\ settings' = r.settings
        /\ response' = r.response
        /\ UNCHANGED <<backend, now, PartyTables>>

----------------------------------------------------------------------------
(* UserLoginSerializer *)

Backends == {"ModelBackend", "AllowAllUsersModelBackend"}

GenericLoginError == "Unable to log in with provided credentials."
DisabledLoginError == "User account is disabled."
MissingLoginError == "Must include email and password."

(* django.contrib.auth.authenticate(username=email, password=password):   *)
(* the user whose USERNAME_FIELD (email) is the given one, when the        *)
(* password checks and the backend lets the user authenticate; else None.  *)
authenticate(username, password) ==
    LET found == {u \in users : u.email = username}
        passed == {u \in found :
                     /\ CheckPassword(password, u.password)
                     /\ (u.is_active \/ backend = "AllowAllUsersModelBackend")}
    IN  IF passed = {} THEN NoUser ELSE (CHOOSE u \in passed : TRUE).id

(* required, non-blank fields: checked before validate() runs *)
LoginFieldErrors(email, password) ==
    (IF email = <<>> THEN {<<"email", "This field may not be blank.">>} ELSE {})
    \cup (IF password = "" THEN {<<"password", "This field may not be blank.">>} ELSE {})

(* validate with a separate message for an email that no user has *)
LoginValidate_leaky(attrs_email, attrs_password) ==
    LET email == Lower(attrs_email)
        user == authenticate(email, attrs_password)
    IN  IF ~\E u \in users : u.email = email
        THEN Resp("login", 400, {<<"non_field_errors", "No account with this email.">>}, NoUser)
        ELSE IF user = NoUser
        THEN Resp("login", 400, {<<"non_field_errors", GenericLoginError>>}, NoUser)
        ELSE Resp("login", 200, {}, user)

(* validate: [status, errors, user] of the attempt *)
LoginValidate(attrs_email, attrs_password) ==
    LET email == Lower(attrs_email)
        password == attrs_password
    IN  IF email # <<>> /\ password # ""
        THEN LET user == authenticate(email, password)
             IN  IF user = NoUser
                 THEN Resp("login", 400, {<<"non_field_errors", GenericLoginError>>}, NoUser)
                 ELSE IF ~UserById(user).is_active
                 THEN Resp("login", 400, {<<"non_field_errors", DisabledLoginError>>}, NoUser)
                 ELSE Resp("login", 200, {}, user)
        ELSE Resp("login", 400, {<<"non_field_errors", MissingLoginError>>}, NoUser)

(* is_valid() of a login request *)
LoginResult(email, password) ==
    LET fe == LoginFieldErrors(email, password)
    IN  IF fe # {} THEN Resp("login", 400, fe, NoUser)
        ELSE LoginValidate(email, password)

(* user.update_last_active() *)
update_last_active(u) == [u EXCEPT !.last_active = now]

(* A login request that records the attempt on the addressed user even   *)
(* when the attempt fails                                                 *)
LoginOutcome_touching_failed(email, password) ==
    LET r == LoginResult(email, password)
        addressed == {u \in users : u.email = Lower(email)}
    IN  Outcome((users \ addressed)
                \cup {update_last_active(u) : u \in addressed},
                profiles, settings, r)

(* A login request: the users table and the response after it *)
LoginOutcome(email, password) ==
    LET r == LoginResult(email, password)
    IN  Outcome(IF r.status = 200
                THEN (users \ {UserById(r.user)})
                     \cup {update_last_active(UserById(r.user))}
                ELSE users,
                profiles, settings, r)

Login(email, password) ==
    \E r \in {LoginOutcome(email, password)} :
        /\ users' = r.users
        /\ response' = r.response
        /\ UNCHANGED <<profiles, settings, backend, now, PartyTables>>

----------------------------------------------------------------------------
(* PasswordChangeSerializer; uid is request.user *)

(* validate_old_password *)
validate_old_password(uid, value) ==
    IF ~CheckPassword(value, UserById(uid).password)
    THEN {<<"old_password", "Old password is incorrect.">>}
    ELSE {}

(* validate: the cross-field check, run only when no field failed *)
PasswordChangeValidate(new_password, new_password_confirm) ==
    IF new_password # new_password_confirm
    THEN {<<"new_password", "New password fields didn't match.">>}
    ELSE {}

PasswordChangeErrors(uid, old_password, new_password, new_password_confirm) ==
    LET fe == validate_old_password(uid, old_password)
              \cup PasswordFieldErrors("new_password", new_password)
    IN  IF fe # {} THEN fe
        ELSE PasswordChangeValidate(new_password, new_password_confirm)

(* save without user.save(): the new hash never reaches the store *)
PasswordChangeSave_unsaved(uid, new_password) == users

(* save: user.set_password(new_password); user.save() *)
PasswordChangeSave(uid, new_password) ==
    (users \ {UserById(uid)})
    \cup {[UserById(uid) EXCEPT !.password = MakePassword(new_password)]}

(* A password-change request: is_valid(), then save() *)
PasswordChangeOutcome(uid, old_password, new_password, new_password_confirm) ==
    LET errors == PasswordChangeErrors(uid, old_password, new_password,
                                       new_password_confirm)
    IN  IF errors # {}
        THEN Outcome(users, profiles, settings,
                     Resp("password_change", 400, errors, NoUser))
        ELSE Outcome(PasswordChangeSave(uid, new_password), profiles, settings,
                     Resp("password_change", 200, {}, uid))

PasswordChange(uid, old_password, new_password, new_password_confirm) ==
    /\ \E u \in users : u.id = uid
    /\ \E r \in {PasswordChangeOutcome(uid, old_password, new_password,
                                       new_password_confirm)} :
        /\ users' = r.users
        /\ response' = r.response
    /\ UNCHANGED <<profiles, settings, backend, now, PartyTables>>

----------------------------------------------------------------------------
(* The admin site: UserAdmin edits is_active, is_premium, premium_expires_at *)

AdminSetActive(uid, flag) ==
    /\ \E u \in users : u.id = uid /\ u.is_active # flag
    /\ users' = (users \ {UserById(uid)})
                \cup {[UserById(uid) EXCEPT !.is_active = flag]}
    /\ response' = Resp("admin", 200, {}, uid)
    /\ UNCHANGED <<profiles, settings, backend, now, PartyTables>>

AdminSetPremium(uid, flag, expires) ==
    /\ \E u \in users : u.id = uid
    /\ users' = (users \ {UserById(uid)})
                \cup {[UserById(uid) EXCEPT !.is_premium = flag,
                                            !.premium_expires_at = expires]}
    /\ response' = Resp("admin", 200, {}, uid)
    /\ UNCHANGED <<profiles, settings, backend, now, PartyTables>>

(* is_premium_active with >= in place of > *)
is_premium_active_inclusive(u) ==
    IF ~u.is_premium THEN FALSE
    ELSE IF u.premium_expires_at # NoneTime THEN u.premium_expires_at >= now
    ELSE TRUE

(* User.is_premium_active at the current time *)
is_premium_active(u) ==
    IF ~u.is_premium THEN FALSE
    ELSE IF u.premium_expires_at # NoneTime THEN u.premium_expires_at > now
    ELSE TRUE

(* The clock advances *)
Tick ==
    /\ now < MaxTime
    /\ now' = now + 1
    /\ UNCHANGED <<users, profiles, settings, backend, response, PartyTables>>

----------------------------------------------------------------------------
(* Specifications of the account store *)

NoResponse == Resp("none", 0, {}, NoUser)

(* A null foreign key (Party.category, PartyComment.parent) *)
NoneRef == 0

(* No category and no comment stored, no primary key handed out *)
ThreadInit ==
    /\ categories = {}
    /\ party_comments = {}
    /\ next_id = [category |-> 0, comment |-> 0]

(* No registration request in flight *)
NoRequests == <<>>

(* The empty store *)
StoreInit ==
    /\ users = {}
    /\ profiles = {}
    /\ settings = {}
    /\ now = 0
    /\ response = NoResponse
    /\ parties = {}
    /\ party_rsvps = EmptyBag
    /\ party_likes = EmptyBag
    /\ ThreadInit
    /\ inflight = NoRequests

(* Django's default authentication backend *)
Init ==
    /\ StoreInit
    /\ backend = "ModelBackend"

(* Registration requests, every store write succeeding *)
Next ==
    \E e \in Emails, n \in Usernames, p \in RegPasswords, pc \in RegPasswords :
        Register(e, n, p, pc, "none")

Spec == Init /\ [][Next]_vars

(* Registration of well-formed accounts, with store writes that may fail *)
FaultNext ==
    \E a \in Accounts, p \in Passwords, f \in Faults : Register(a[1], a[2], p, p, f)

FaultSpec == Init /\ [][FaultNext]_vars

(* Authentication: registration of well-formed accounts, login, password   *)
(* change, deactivation by the admin                                       *)
AuthInit ==
    /\ StoreInit
    /\ backend \in Backends

AuthNext ==
    \/ \E a \in Accounts, p \in Passwords : Register(a[1], a[2], p, p, "none")
    \/ \E e \in Emails \cup {<<>>}, p \in Passwords \cup {""} : Login(e, p)
    \/ \E uid \in UserIds, old \in Passwords, new \in Passwords, conf \in Passwords :
         PasswordChange(uid, old, new, conf)
    \/ \E uid \in UserIds, flag \in BOOLEAN : AdminSetActive(uid, flag)

AuthSpec == AuthInit /\ [][AuthNext]_vars

----------------------------------------------------------------------------
(* Premium accounts: two registered users, the admin, the clock *)

SeedUsers ==
    {NewUser(1, <<"a", "x">>, <<"u">>, "pw1"),
     NewUser(2, <<"b", "x">>, <<"v">>, "pw2")}

SeedInit ==
    /\ now = 0
    /\ users = SeedUsers
    /\ profiles = {[id |-> u.id, user |-> u.id] : u \in SeedUsers}
    /\ settings = {[id |-> u.id, user |-> u.id] : u \in SeedUsers}
    /\ backend = "ModelBackend"
    /\ response = NoResponse

PremiumInit ==
    /\ SeedInit
    /\ parties = {}
    /\ party_rsvps = EmptyBag
    /\ party_likes = EmptyBag
    /\ ThreadInit
    /\ inflight = NoRequests

PremiumNext ==
    \/ \E u \in users, flag \in BOOLEAN, expires \in OptTimes :
         AdminSetPremium(u.id, flag, expires)
    \/ Tick

PremiumSpec == PremiumInit /\ [][PremiumNext]_vars

----------------------------------------------------------------------------
(* The party store *)

MaxParties == 1

RsvpTypes == {"open", "approval", "invite_only", "closed"}
RsvpStatuses == {"attending", "maybe", "not_attending"}

AccountTables == <<users, profiles, settings, backend, inflight>>

(* Tables the RSVP and like requests leave alone *)
ThreadTables == <<categories, party_comments, next_id>>

(* Party.objects.create: host is a User; the dates are required *)
CreateParty(host, rsvp_type, rsvp_deadline, end_date) ==
    /\ Cardinality(parties) < MaxParties
    /\ \E u \in users : u.id = host
    /\ parties' = parties \cup
          {[id |-> Cardinality(parties) + 1, host |-> host,
            category |-> NoneRef,
            rsvp_type |-> rsvp_type, rsvp_deadline |-> rsvp_deadline,
            end_date |-> end_date]}
    /\ response' = Resp("create_party", 201, {}, host)
    /\ UNCHANGED <<AccountTables, now, party_rsvps, party_likes, ThreadTables>>

(* Party.is_past *)
is_past(p) == p.end_date < now

(* can_rsvp with >= in place of > at the deadline *)
can_rsvp_inclusive(p) ==
    IF p.rsvp_type = "closed" THEN FALSE
    ELSE IF p.rsvp_deadline # NoneTime /\ now >= p.rsvp_deadline THEN FALSE
    ELSE IF is_past(p) THEN FALSE
    ELSE TRUE

(* Party.can_rsvp *)
can_rsvp(p) ==
    IF p.rsvp_type = "closed" THEN FALSE
    ELSE IF p.rsvp_deadline # NoneTime /\ now > p.rsvp_deadline THEN FALSE
    ELSE IF is_past(p) THEN FALSE
    ELSE TRUE

PartyInit ==
    /\ SeedInit
    /\ parties = {}
    /\ party_rsvps = EmptyBag
    /\ party_likes = EmptyBag
    /\ ThreadInit
    /\ inflight = NoRequests

PartyNext ==
    \/ \E u \in users, t \in RsvpTypes, d \in OptTimes, e \in Times :
         CreateParty(u.id, t, d, e)
    \/ Tick

PartySpec == PartyInit /\ [][PartyNext]_vars

----------------------------------------------------------------------------
(* PartyRSVP and PartyLike.  A table is a bag of rows, so that two rows of *)
(* the same (party, user) pair are two copies.                             *)

PlusOnes == 0..MaxPlusOnes

(* queryset.filter(...): the rows of B that are in S, with their copies *)
Filter(B, S) == [r \in S |-> CopiesIn(r, B)]

(* queryset.count() *)
Count(B) == BagCardinality(B)

RsvpRow(party, user, status, plus_ones) ==
    [party |-> party, user |-> user, status |-> status, plus_ones |-> plus_ones]

LikeRow(party, user) == [party |-> party, user |-> user]

(* The rows of a (party, user) pair *)
PairRows(B, party, user) ==
    Filter(B, {r \in BagToSet(B) : r.party = party /\ r.user = user})

(* party.rsvps: the related manager of PartyRSVP.party *)
RsvpsOf(rsvps, party) ==
    Filter(rsvps, {r \in BagToSet(rsvps) : r.party = party})

(* attendee_count that leaves out the status filter *)
AttendeeCount_unfiltered(rsvps, party) == Count(RsvpsOf(rsvps, party))

(* Party.attendee_count over a given party_rsvps table *)
AttendeeCount(rsvps, party) ==
    LET related == RsvpsOf(rsvps, party)
    IN  Count(Filter(related, {r \in BagToSet(related) : r.status = "attending"}))

(* Party.attendee_count *)
attendee_count(p) == AttendeeCount(party_rsvps, p.id)

TableOutcome(table, resp) == [table |-> table, response |-> resp]

IntegrityError == {<<"db", "IntegrityError">>}

(* PartyRSVP.objects.create without the unique_together constraint *)
CreateRSVPResult_unconstrained(party, user, status, plus_ones) ==
    [table |-> party_rsvps (+) SetToBag({RsvpRow(party, user, status, plus_ones)}),
     response |-> Resp("create_rsvp", 201, {}, user)]

(* PartyRSVP.objects.create: unique_together = ['party', 'user'] *)
CreateRSVPResult(party, user, status, plus_ones) ==
    IF Count(PairRows(party_rsvps, party, user)) > 0
    THEN TableOutcome(party_rsvps, Resp("create_rsvp", 500, IntegrityError, user))
    ELSE TableOutcome(party_rsvps (+) SetToBag({RsvpRow(party, user, status, plus_ones)}),
                      Resp("create_rsvp", 201, {}, user))

(* rsvp.status = ...; rsvp.plus_ones = ...; rsvp.save() on a stored row *)
UpdateRSVPResult(row, status, plus_ones) ==
    TableOutcome((party_rsvps (-) SetToBag({row}))
                 (+) SetToBag({RsvpRow(row.party, row.user, status, plus_ones)}),
                 Resp("update_rsvp", 200, {}, row.user))

(* rsvp.delete() on a stored row *)
DeleteRSVPResult(row) ==
    TableOutcome(party_rsvps (-) SetToBag({row}),
                 Resp("delete_rsvp", 204, {}, row.user))

(* PartyLike.objects.create: unique_together = ['party', 'user'] *)
CreateLikeResult(party, user) ==
    IF Count(PairRows(party_likes, party, user)) > 0
    THEN TableOutcome(party_likes, Resp("create_like", 500, IntegrityError, user))
    ELSE TableOutcome(party_likes (+) SetToBag({LikeRow(party, user)}),
                      Resp("create_like", 201, {}, user))

(* like.delete() on a stored row *)
DeleteLikeResult(row) ==
    TableOutcome(party_likes (-) SetToBag({row}),
                 Resp("delete_like", 204, {}, row.user))

RsvpStep(r) ==
    /\ party_rsvps' = r.table
    /\ response' = r.response
    /\ UNCHANGED <<AccountTables, now, parties, party_likes, ThreadTables>>

LikeStep(r) ==
    /\ party_likes' = r.table
    /\ response' = r.response
    /\ UNCHANGED <<AccountTables, now, parties, party_rsvps, ThreadTables>>

CreateRSVP(p, u, status, plus_ones) ==
    /\ p \in parties /\ u \in users
    /\ RsvpStep(CreateRSVPResult(p.id, u.id, status, plus_ones))

UpdateRSVP(row, status, plus_ones) ==
    /\ row \in BagToSet(party_rsvps)
    /\ RsvpStep(UpdateRSVPResult(row, status, plus_ones))

DeleteRSVP(row) ==
    /\ row \in BagToSet(party_rsvps)
    /\ RsvpStep(DeleteRSVPResult(row))

CreateLike(p, u) ==
    /\ p \in parties /\ u \in users
    /\ LikeStep(CreateLikeResult(p.id, u.id))

DeleteLike(row) ==
    /\ row \in BagToSet(party_likes)
    /\ LikeStep(DeleteLikeResult(row))

(* Two published parties of the two registered users *)
SeedParties ==
    {[id |-> 1, host |-> 1, category |-> NoneRef, rsvp_type |-> "open", rsvp_deadline |-> NoneTime,
      end_date |-> MaxTime],
     [id |-> 2, host |-> 2, category |-> NoneRef, rsvp_type |-> "approval", rsvp_deadline |-> NoneTime,
      end_date |-> MaxTime]}

RsvpInit ==
    /\ SeedInit
    /\ parties = SeedParties
    /\ party_rsvps = EmptyBag
    /\ party_likes = EmptyBag
    /\ ThreadInit
    /\ inflight = NoRequests

(* RSVP creations, status and plus_ones changes, deletions *)
RsvpNext ==
    \/ \E p \in parties, u \in users, st \in RsvpStatuses, n \in PlusOnes :
         CreateRSVP(p, u, st, n)
    \/ \E row \in BagToSet(party_rsvps), st \in RsvpStatuses, n \in PlusOnes :
         UpdateRSVP(row, st, n)
    \/ \E row \in BagToSet(party_rsvps) : DeleteRSVP(row)

RsvpSpec == RsvpInit /\ [][RsvpNext]_vars

(* RSVPs and likes created and deleted *)
PairNext ==
    \/ \E p \in parties, u \in users, st \in {"attending", "maybe"} :
         CreateRSVP(p, u, st, 0)
    \/ \E row \in BagToSet(party_rsvps) : DeleteRSVP(row)
    \/ \E p \in parties, u \in users : CreateLike(p, u)
    \/ \E row \in BagToSet(party_likes) : DeleteLike(row)

PairSpec == RsvpInit /\ [][PairNext]_vars

----------------------------------------------------------------------------
(* Properties *)

EmailErrors(errors) == {x \in errors : x[1] = "email"}

StoredIgnoringCase(email) == \E u \in users : Lower(u.email) = Lower(email)

(* C1: a registration whose email equals a stored User's email when letter *)
(* case is ignored is rejected with a validation error on the email and    *)
(* creates no User, and no two stored Users have emails equal ignoring     *)
(* case.  Checked under Spec.                                              *)
C1_EmailUniqueIgnoringCase ==
    /\ \A u1, u2 \in users : Lower(u1.email) = Lower(u2.email) => u1 = u2
    /\ \A e \in Emails, n \in Usernames, p \in RegPasswords, pc \in RegPasswords,
          f \in Faults :
         StoredIgnoringCase(e) =>
            LET r == RegisterResult(e, n, p, pc, f)
            IN  /\ r.response.status = 400
                /\ EmailErrors(r.response.errors) # {}
                /\ r.users = users

(* C1 witness: a registration was refused by validate_email itself, which  *)
(* happens only when the email differs from a stored one in letter case.   *)
C1_Witness ==
    /\ response.op = "register"
    /\ response.status = 400
    /\ <<"email", "A user with this email already exists.">> \in response.errors
    /\ Cardinality(users) = 2

(* C2: a registration whose password and password_confirm differ is        *)
(* rejected, and the User, UserProfile and UserSettings tables are the     *)
(* same after it as before.  Checked under Spec.                           *)
C2_MismatchRejected ==
    \A e \in Emails, n \in Usernames, p \in RegPasswords, pc \in RegPasswords,
       f \in Faults :
        p # pc =>
            LET r == RegisterResult(e, n, p, pc, f)
            IN  /\ r.response.status = 400
                /\ r.users = users
                /\ r.profiles = profiles
                /\ r.settings = settings

(* C2 witness: a registration was refused for its password confirmation    *)
(* while a User is stored.                                                 *)
C2_Witness ==
    /\ response.op = "register"
    /\ response.status = 400
    /\ <<"password", "Password fields didn't match.">> \in response.errors
    /\ users # {}

(* C3: a successful registration adds exactly one User, one UserProfile    *)
(* and one UserSettings row, the new profile and settings referencing the  *)
(* new User; and after successful registrations every User has exactly one *)
(* profile and one settings row.  Checked under Spec, where every store    *)
(* write succeeds.                                                         *)
C3_OneUserProfileSettings ==
    /\ \A u \in users :
         /\ Cardinality(ProfilesOf(u.id)) = 1
         /\ Cardinality(SettingsOf(u.id)) = 1
    /\ \A e \in Emails, n \in Usernames, p \in RegPasswords, pc \in RegPasswords :
         LET r == RegisterResult(e, n, p, pc, "none")
         IN  r.response.status = 201 =>
               /\ users \subseteq r.users
               /\ profiles \subseteq r.profiles
               /\ settings \subseteq r.settings
               /\ Cardinality(r.users \ users) = 1
               /\ Cardinality(r.profiles \ profiles) = 1
               /\ Cardinality(r.settings \ settings) = 1
               /\ \A u \in r.users \ users :
                    /\ u.id = r.response.user
                    /\ \A x \in r.profiles \ profiles : x.user = u.id
                    /\ \A x \in r.settings \ settings : x.user = u.id

(* C3 witness: the second of two successful registrations has been served. *)
C3_Witness ==
    /\ response.op = "register"
    /\ response.status = 201
    /\ Cardinality(users) = 2
    /\ Cardinality(profiles) = 2
    /\ Cardinality(settings) = 2

(* C4: registration is one transactional unit: when the UserProfile or the *)
(* UserSettings write fails after the User was created, no row of that     *)
(* registration remains, so every stored User has its profile and its      *)
(* settings.  Checked under FaultSpec.                                     *)
C4_NoOrphanUser ==
    \A u \in users : ProfilesOf(u.id) # {} /\ SettingsOf(u.id) # {}

WrongPasswordFor(email, password) ==
    \E u \in users : Lower(u.email) = Lower(email)
                     /\ ~CheckPassword(password, u.password)

(* C5: a login with a registered email and a wrong password and a login    *)
(* with an unregistered email fail with the same message.  Checked under   *)
(* AuthSpec.                                                               *)
C5_SameLoginFailure ==
    \A e1 \in Emails, e2 \in Emails, p1 \in Passwords, p2 \in Passwords :
        (WrongPasswordFor(e1, p1) /\ ~StoredIgnoringCase(e2)) =>
            LET r1 == LoginOutcome(e1, p1).response
                r2 == LoginOutcome(e2, p2).response
            IN  /\ r1.status = 400
                /\ r2.status = 400
                /\ r1.user = NoUser
                /\ r1 = r2

(* C5 witness: a login has failed with the generic message while some      *)
(* email is registered and another is not.                                 *)
C5_Witness ==
    /\ response.op = "login"
    /\ response.errors = {<<"non_field_errors", GenericLoginError>>}
    /\ \E e1 \in Emails, e2 \in Emails, p1 \in Passwords :
         WrongPasswordFor(e1, p1) /\ ~StoredIgnoringCase(e2)

(* C6: is_premium_active is false when is_premium is false, true when      *)
(* is_premium is true and premium_expires_at is unset, true when it is     *)
(* strictly later than the current time, and false when it is at or before *)
(* the current time.  Checked under PremiumSpec.                           *)
C6_PremiumActive ==
    \A u \in users :
        /\ ~u.is_premium => ~is_premium_active(u)
        /\ (u.is_premium /\ u.premium_expires_at = NoneTime) => is_premium_active(u)
        /\ (u.is_premium /\ u.premium_expires_at # NoneTime
              /\ u.premium_expires_at > now) => is_premium_active(u)
        /\ (u.is_premium /\ u.premium_expires_at # NoneTime
              /\ u.premium_expires_at <= now) => ~is_premium_active(u)

(* C6 witness: a premium user whose expiry is exactly the current time,    *)
(* beside a premium user without expiry.                                   *)
C6_Witness ==
    /\ now > 0
    /\ \E u \in users : u.is_premium /\ u.premium_expires_at = now
    /\ \E u \in users : u.is_premium /\ u.premium_expires_at = NoneTime

(* C7: can_rsvp is false when rsvp_type is "closed", false when            *)
(* rsvp_deadline is set and the current time is later than it, false when  *)
(* end_date is earlier than the current time, and true in every other      *)
(* case.  Checked under PartySpec.                                         *)
C7_CanRsvp ==
    \A p \in parties :
        LET closed == p.rsvp_type = "closed"
            late == p.rsvp_deadline # NoneTime /\ now > p.rsvp_deadline
            over == p.end_date < now
        IN  /\ closed => ~can_rsvp(p)
            /\ late => ~can_rsvp(p)
            /\ over => ~can_rsvp(p)
            /\ (~closed /\ ~late /\ ~over) => can_rsvp(p)

(* C7 witness: a party that is not closed, at the very time of its         *)
(* deadline and of its end.                                                *)
C7_Witness ==
    /\ now > 0
    /\ \E p \in parties :
         /\ p.rsvp_type # "closed"
         /\ p.rsvp_deadline = now
         /\ p.end_date = now
         /\ can_rsvp(p)

RECURSIVE SumCopies(_, _)
(* The number of rows of bag B that are copies of a row in S *)
SumCopies(S, B) ==
    IF S = {} THEN 0
    ELSE LET r == CHOOSE x \in S : TRUE
         IN  CopiesIn(r, B) + SumCopies(S \ {r}, B)

AttendingRecords(rsvps, party) ==
    SumCopies({r \in BagToSet(rsvps) : r.party = party /\ r.status = "attending"},
              rsvps)

(* C8: after any sequence of RSVP creations, changes and deletions a       *)
(* Party's attendee_count is the number of PartyRSVP rows of that party    *)
(* with status "attending"; a change of plus_ones, and the creation, change *)
(* or deletion of an RSVP of another party, leave it as it was.  Checked   *)
(* under RsvpSpec.                                                         *)
C8_AttendeeCount ==
    \A p \in parties :
        /\ attendee_count(p) = AttendingRecords(party_rsvps, p.id)
        /\ \A row \in BagToSet(party_rsvps) :
             /\ row.party = p.id =>
                  \A n \in PlusOnes :
                      AttendeeCount(UpdateRSVPResult(row, row.status, n).table, p.id)
                          = attendee_count(p)
             /\ row.party # p.id =>
                  /\ AttendeeCount(DeleteRSVPResult(row).table, p.id) = attendee_count(p)
                  /\ \A st \in RsvpStatuses, n \in PlusOnes :
                       AttendeeCount(UpdateRSVPResult(row, st, n).table, p.id)
                           = attendee_count(p)
        /\ \A q \in parties, u \in users, st \in RsvpStatuses, n \in PlusOnes :
             q # p =>
                 AttendeeCount(CreateRSVPResult(q.id, u.id, st, n).table, p.id)
                     = attendee_count(p)

(* C8 witness: a party with one attending RSVP that brings a plus-one and  *)
(* one RSVP of another status, after a status change, while the other      *)
(* party has an attending RSVP too.                                        *)
C8_Witness ==
    /\ response.op = "update_rsvp"
    /\ \E p \in parties, q \in parties :
         /\ p # q
         /\ attendee_count(p) = 1
         /\ Count(RsvpsOf(party_rsvps, p.id)) = 2
         /\ \E r \in BagToSet(party_rsvps) :
              r.party = p.id /\ r.status = "attending" /\ r.plus_ones > 0
         /\ attendee_count(q) = 1

(* C9: there is at most one PartyRSVP row and at most one PartyLike row    *)
(* for each (party, user) pair; creating a second row for a pair that has  *)
(* one is rejected and leaves the table unchanged.  Checked under PairSpec. *)
C9_OnePerPair ==
    \A p \in parties, u \in users :
        /\ Count(PairRows(party_rsvps, p.id, u.id)) <= 1
        /\ Count(PairRows(party_likes, p.id, u.id)) <= 1
        /\ Count(PairRows(party_rsvps, p.id, u.id)) = 1 =>
             \A st \in RsvpStatuses, n \in PlusOnes :
                 LET r == CreateRSVPResult(p.id, u.id, st, n)
                 IN  r.table = party_rsvps /\ r.response.status = 500
        /\ Count(PairRows(party_likes, p.id, u.id)) = 1 =>
             LET r == CreateLikeResult(p.id, u.id)
             IN  r.table = party_likes /\ r.response.status = 500

(* C9 witness: a second RSVP of a pair has been refused while the pair     *)
(* also has a like.                                                        *)
C9_Witness ==
    /\ response.op = "create_rsvp"
    /\ response.status = 500
    /\ \E p \in parties, u \in users :
         /\ u.id = response.user
         /\ Count(PairRows(party_rsvps, p.id, u.id)) = 1
         /\ Count(PairRows(party_likes, p.id, u.id)) = 1

Credential(us, uid) == (CHOOSE u \in us : u.id = uid).password

(* C10, as claimed: a password change whose old_password does not match    *)
(* the stored credential, or whose new_password and new_password_confirm   *)
(* differ, is rejected and leaves the credential unchanged; one that       *)
(* passes validation stores new_password, so that the old password no      *)
(* longer matches the credential and the new one does.                     *)
C10_AsClaimed ==
    [][\A u \in users, old \in Passwords, new \in Passwords, conf \in Passwords :
         PasswordChange(u.id, old, new, conf) =>
            /\ (~CheckPassword(old, u.password) \/ new # conf) =>
                 /\ response'.status = 400
                 /\ users' = users
            /\ response'.status = 200 =>
                 /\ Credential(users', u.id) = MakePassword(new)
                 /\ CheckPassword(new, Credential(users', u.id))
                 /\ ~CheckPassword(old, Credential(users', u.id))]_vars

(* C10, amended: as claimed, except that the old password stops matching   *)
(* the credential only when new_password differs from it.  Checked under   *)
(* AuthSpec.                                                               *)
C10_PasswordChange ==
    \A u \in users, old \in Passwords, new \in Passwords, conf \in Passwords :
        LET r == PasswordChangeOutcome(u.id, old, new, conf)
            after == Credential(r.users, u.id)
        IN  /\ (~CheckPassword(old, u.password) \/ new # conf) =>
                 /\ r.response.status = 400
                 /\ r.users = users
            /\ r.response.status = 200 =>
                 /\ after = MakePassword(new)
                 /\ CheckPassword(new, after)
                 /\ (new # old => ~CheckPassword(old, after))
                 /\ \A x \in r.users : x.id # u.id => x \in users

(* C10 witness: a user registered with one password has changed it to      *)
(* another, beside a user who has not.                                     *)
C10_Witness ==
    /\ response.op = "password_change"
    /\ response.status = 200
    /\ Cardinality(users) = 2
    /\ \E u \in users : u.id = response.user /\ u.password = MakePassword("pw2")
    /\ \E u \in users : u.id # response.user /\ u.password = MakePassword("pw1")

----------------------------------------------------------------------------
(* Deletion: the on_delete rules of the party store *)

MaxCategories == 1
MaxComments == 2

(* The tables a deletion can reach *)
Store(us, ps, ss, pa, ca, co, rs, li) ==
    [users |-> us, profiles |-> ps, settings |-> ss, parties |-> pa,
     categories |-> ca, party_comments |-> co, party_rsvps |-> rs,
     party_likes |-> li]

RECURSIVE WithReplies(_)
(* PartyComment.parent, on_delete=CASCADE: the comments with the given     *)
(* ids, their replies, the replies to those, and so on                     *)
WithReplies(ids) ==
    LET more == ids \cup {c.id : c \in {x \in party_comments : x.parent \in ids}}
    IN  IF more = ids THEN ids ELSE WithReplies(more)

(* The deletion collector: the rows that go with the given users, parties  *)
(* and comments.  on_delete=CASCADE: Party.host, PartyRSVP.party and .user, *)
(* PartyComment.party, .user and .parent, PartyLike.party and .user,       *)
(* UserProfile.user.                                                       *)
CascadeDelete(uids, pids, cids) ==
    LET gone_parties == pids \cup {p.id : p \in {x \in parties : x.host \in uids}}
        gone_comments ==
            WithReplies(cids \cup
                {c.id : c \in {x \in party_comments :
                                 x.party \in gone_parties \/ x.user \in uids}})
    IN  Store({u \in users : u.id \notin uids},
              {x \in profiles : x.user \notin uids},
              {x \in settings : x.user \notin uids},
              {x \in parties : x.id \notin gone_parties},
              categories,
              {x \in party_comments : x.id \notin gone_comments},
              Filter(party_rsvps, {r \in BagToSet(party_rsvps) :
                                     r.party \notin gone_parties /\ r.user \notin uids}),
              Filter(party_likes, {r \in BagToSet(party_likes) :
                                     r.party \notin gone_parties /\ r.user \notin uids}))

(* party.delete() that leaves the likes of the party behind *)
DeletePartyResult_keeps_likes(p) ==
    [CascadeDelete({}, {p.id}, {}) EXCEPT !.party_likes = party_likes]

(* party.delete() *)
DeletePartyResult(p) == CascadeDelete({}, {p.id}, {})

(* comment.delete() *)
DeleteCommentResult(c) == CascadeDelete({}, {}, {c.id})

(* user.delete() *)
DeleteUserResult(u) == CascadeDelete({u.id}, {}, {})

(* category.delete(): Party.category is on_delete=SET_NULL *)
DeleteCategoryResult(cat) ==
    Store(users, profiles, settings,
          {IF x.category = cat.id THEN [x EXCEPT !.category = NoneRef] ELSE x :
             x \in parties},
          categories \ {cat}, party_comments, party_rsvps, party_likes)

(* The store becomes st *)
Apply(st, op) ==
    /\ users' = st.users
    /\ profiles' = st.profiles
    /\ settings' = st.settings
    /\ parties' = st.parties
    /\ categories' = st.categories
    /\ party_comments' = st.party_comments
    /\ party_rsvps' = st.party_rsvps
    /\ party_likes' = st.party_likes
    /\ response' = Resp(op, 204, {}, NoUser)
    /\ UNCHANGED <<backend, now, next_id, inflight>>

DeleteParty(p) == p \in parties /\ Apply(DeletePartyResult(p), "delete_party")

DeleteComment(c) ==
    c \in party_comments /\ Apply(DeleteCommentResult(c), "delete_comment")

DeleteUser(u) == u \in users /\ Apply(DeleteUserResult(u), "delete_user")

DeleteCategory(cat) ==
    cat \in categories /\ Apply(DeleteCategoryResult(cat), "delete_category")

(* PartyCategory.objects.create *)
CreateCategory ==
    /\ next_id.category < MaxCategories
    /\ categories' = categories \cup {[id |-> next_id.category + 1]}
    /\ next_id' = [next_id EXCEPT !.category = @ + 1]
    /\ response' = Resp("create_category", 201, {}, NoUser)
    /\ UNCHANGED <<AccountTables, now, parties, party_rsvps, party_likes,
                   party_comments>>

(* party.category = cat; party.save(): cat is a stored category or null *)
SetCategory(p, cat) ==
    /\ p \in parties
    /\ cat = NoneRef \/ \E x \in categories : x.id = cat
    /\ p.category # cat
    /\ parties' = (parties \ {p}) \cup {[p EXCEPT !.category = cat]}
    /\ response' = Resp("update_party", 200, {}, NoUser)
    /\ UNCHANGED <<AccountTables, now, party_rsvps, party_likes, ThreadTables>>

(* PartyComment.objects.create: parent is a stored comment or null *)
CreateComment(p, u, parent) ==
    /\ p \in parties /\ u \in users
    /\ parent = NoneRef \/ \E x \in party_comments : x.id = parent
    /\ next_id.comment < MaxComments
    /\ party_comments' = party_comments \cup
          {[id |-> next_id.comment + 1, party |-> p.id, user |-> u.id,
            parent |-> parent]}
    /\ next_id' = [next_id EXCEPT !.comment = @ + 1]
    /\ response' = Resp("create_comment", 201, {}, NoUser)
    /\ UNCHANGED <<AccountTables, now, parties, party_rsvps, party_likes,
                   categories>>

CommentIds == 1..MaxComments
CategoryIds == 1..MaxCategories

CascadeInit ==
    /\ SeedInit
    /\ parties = SeedParties
    /\ party_rsvps = EmptyBag
    /\ party_likes = EmptyBag
    /\ ThreadInit
    /\ inflight = NoRequests

(* Creations and deletions in the party store; the guests of a party     *)
(* comment, RSVP and like                                                *)
CascadeNext ==
    \/ CreateCategory
    \/ \E p \in parties, cat \in CategoryIds \cup {NoneRef} : SetCategory(p, cat)
    \/ \E p \in parties, u \in users, parent \in CommentIds \cup {NoneRef} :
         p.host # u.id /\ CreateComment(p, u, parent)
    \/ \E p \in parties, u \in users :
         p.host # u.id /\ CreateRSVP(p, u, "attending", 0)
    \/ \E p \in parties, u \in users :
         p.host # u.id /\ CreateLike(p, u)
    \/ \E p \in parties : DeleteParty(p)
    \/ \E c \in party_comments : DeleteComment(c)
    \/ \E cat \in categories : DeleteCategory(cat)
    \/ \E u \in users : DeleteUser(u)

CascadeSpec == CascadeInit /\ [][CascadeNext]_vars

Ids(table) == {x.id : x \in table}

(* Every foreign key of the store st names a stored row, or is null where  *)
(* the field allows it                                                     *)
References(st) ==
    /\ \A x \in st.profiles : x.user \in Ids(st.users)
    /\ \A x \in st.settings : x.user \in Ids(st.users)
    /\ \A x \in st.parties :
         /\ x.host \in Ids(st.users)
         /\ x.category \in Ids(st.categories) \cup {NoneRef}
    /\ \A x \in BagToSet(st.party_rsvps) :
         x.party \in Ids(st.parties) /\ x.user \in Ids(st.users)
    /\ \A x \in BagToSet(st.party_likes) :
         x.party \in Ids(st.parties) /\ x.user \in Ids(st.users)
    /\ \A x \in st.party_comments :
         /\ x.party \in Ids(st.parties)
         /\ x.user \in Ids(st.users)
         /\ x.parent \in Ids(st.party_comments) \cup {NoneRef}

CurrentStore ==
    Store(users, profiles, settings, parties, categories, party_comments,
          party_rsvps, party_likes)

(* C11: after any sequence of creations and deletions no row references a  *)
(* deleted row: deleting a Party deletes every PartyRSVP, PartyComment and *)
(* PartyLike of that party, deleting a PartyComment deletes its replies,   *)
(* and deleting a PartyCategory deletes no Party and sets the category of  *)
(* every Party that referenced it to null.  Primary keys are never handed  *)
(* out twice, so a reference to a deleted row cannot come to name a new    *)
(* one.  Checked under CascadeSpec.                                        *)
C11_NoDanglingReference ==
    /\ References(CurrentStore)
    /\ \A p \in parties :
         LET st == DeletePartyResult(p)
         IN  /\ p \notin st.parties
             /\ \A x \in BagToSet(st.party_rsvps) : x.party # p.id
             /\ \A x \in BagToSet(st.party_likes) : x.party # p.id
             /\ \A x \in st.party_comments : x.party # p.id
             /\ References(st)
    /\ \A c \in party_comments :
         LET st == DeleteCommentResult(c)
         IN  /\ c \notin st.party_comments
             /\ \A x \in st.party_comments : x.parent # c.id
             /\ References(st)
    /\ \A cat \in categories :
         LET st == DeleteCategoryResult(cat)
         IN  /\ cat \notin st.categories
             /\ Ids(st.parties) = Ids(parties)
             /\ \A x \in parties :
                  \E y \in st.parties :
                     /\ y.id = x.id
                     /\ y.category = IF x.category = cat.id THEN NoneRef
                                     ELSE x.category
                     /\ [y EXCEPT !.category = x.category] = x
             /\ References(st)
    /\ \A u \in users : References(DeleteUserResult(u))

(* C11 witness: a party has been deleted; the two comments written so far *)
(* and the one category are gone, and the party that is left has a null    *)
(* category, an RSVP and a like.                                           *)
C11_Witness ==
    /\ response.op = "delete_party"
    /\ Cardinality(parties) = 1
    /\ next_id.comment = 2
    /\ party_comments = {}
    /\ next_id.category = 1
    /\ categories = {}
    /\ \A p \in parties : p.category = NoneRef
    /\ Count(party_rsvps) = 1
    /\ Count(party_likes) = 1

----------------------------------------------------------------------------
(* Two registration requests served concurrently: is_valid() reads the     *)
(* store, save() writes it later, and the other request may run in between *)

Requests == {"r1", "r2"}

Idle == [pc |-> "idle", email |-> <<>>, validated_email |-> <<>>,
         username |-> <<>>, password |-> "", outcome |-> "none"]

(* is_valid(): the existence checks against the store as it is now *)
Validate(r, email, username, password) ==
    /\ inflight[r].pc = "idle"
    /\ \E errors \in {RegistrationErrors(email, username, password, password)} :
         IF errors # {}
         THEN /\ inflight' = [inflight EXCEPT ![r] =
                    [pc |-> "done", email |-> email, validated_email |-> <<>>,
                     username |-> username, password |-> password,
                     outcome |-> "rejected by validation"]]
              /\ response' = Resp("register", 400, errors, NoUser)
         ELSE /\ inflight' = [inflight EXCEPT ![r] =
                    [pc |-> "validated", email |-> email,
                     validated_email |-> validate_email(email),
                     username |-> username, password |-> password,
                     outcome |-> "none"]]
              /\ response' = response
    /\ UNCHANGED <<users, profiles, settings, backend, now, parties, party_rsvps,
                   party_likes, ThreadTables>>

(* save(): create() with the validated data, against the store as it is now *)
Save(r) ==
    /\ inflight[r].pc = "validated"
    /\ \E st \in {create(inflight[r].validated_email, inflight[r].username,
                         inflight[r].password, "none")} :
         /\ users' = st.users
         /\ profiles' = st.profiles
         /\ settings' = st.settings
         /\ response' = st.response
         /\ inflight' = [inflight EXCEPT
                           ![r].pc = "done",
                           ![r].outcome = IF st.response.status = 201
                                          THEN "created"
                                          ELSE "rejected by the store"]
    /\ UNCHANGED <<backend, now, parties, party_rsvps, party_likes, ThreadTables>>

RaceInit ==
    /\ users = {}
    /\ profiles = {}
    /\ settings = {}
    /\ backend = "ModelBackend"
    /\ now = 0
    /\ response = NoResponse
    /\ parties = {}
    /\ party_rsvps = EmptyBag
    /\ party_likes = EmptyBag
    /\ ThreadInit
    /\ inflight = [r \in Requests |-> Idle]

RaceNext ==
    \/ \E r \in Requests, e \in Emails, n \in Usernames : Validate(r, e, n, "pw1")
    \/ \E r \in Requests : Save(r)

RaceSpec == RaceInit /\ [][RaceNext]_vars

Created(r) == inflight[r].pc = "done" /\ inflight[r].outcome = "created"

SameEmail(r1, r2) == Lower(inflight[r1].email) = Lower(inflight[r2].email)

SameUsername(r1, r2) == Lower(inflight[r1].username) = Lower(inflight[r2].username)

(* C12: of two concurrent registration requests with the same email or the *)
(* same username, letter case ignored, at most one creates a User, however *)
(* their existence checks and store writes interleave.  Checked under      *)
(* RaceSpec.                                                               *)
C12_AtMostOneCreates ==
    \A r1 \in Requests, r2 \in Requests :
        (r1 # r2 /\ (SameEmail(r1, r2) \/ SameUsername(r1, r2))) =>
            ~(Created(r1) /\ Created(r2))

----------------------------------------------------------------------------
(* Login over time: two registered users, login attempts, deactivation by  *)
(* the admin, the clock                                                    *)

LoginInit ==
    /\ now = 0
    /\ users = SeedUsers
    /\ profiles = {[id |-> u.id, user |-> u.id] : u \in SeedUsers}
    /\ settings = {[id |-> u.id, user |-> u.id] : u \in SeedUsers}
    /\ backend \in Backends
    /\ response = NoResponse
    /\ parties = {}
    /\ party_rsvps = EmptyBag
    /\ party_likes = EmptyBag
    /\ ThreadInit
    /\ inflight = NoRequests

LoginNext ==
    \/ \E e \in Emails \cup {<<>>}, p \in Passwords \cup {""} : Login(e, p)
    \/ \E uid \in UserIds, flag \in BOOLEAN : AdminSetActive(uid, flag)
    \/ Tick

LoginSpec == LoginInit /\ [][LoginNext]_vars

(* The active stored users that the credentials belong to *)
Matched(email, password) ==
    {u \in users : /\ u.email = Lower(email)
                   /\ CheckPassword(password, u.password)
                   /\ u.is_active}

(* C13: a login attempt with the email and password of an active user      *)
(* returns that user and sets that user's last_active to the current time; *)
(* any other attempt (wrong password, unregistered email, inactive         *)
(* account, missing email or password) returns no user and leaves every    *)
(* stored User as it was.  Checked under LoginSpec.                        *)
C13_LoginFrame ==
    \A e \in Emails \cup {<<>>}, p \in Passwords \cup {""} :
        LET o == LoginOutcome(e, p)
        IN  IF e # <<>> /\ p # "" /\ Matched(e, p) # {}
            THEN /\ o.response.status = 200
                 /\ \E u \in Matched(e, p) :
                      /\ o.response.user = u.id
                      /\ o.users = (users \ {u})
                                   \cup {[u EXCEPT !.last_active = now]}
            ELSE /\ o.response.status = 400
                 /\ o.response.user = NoUser
                 /\ o.users = users

(* A login has succeeded later than the start: the user returned carries   *)
(* the current time as last_active and the other user still the initial one *)
C13_Witness ==
    /\ response.op = "login"
    /\ response.status = 200
    /\ now > 0
    /\ \E u \in users : u.id = response.user /\ u.last_active = now
    /\ \E u \in users : u.id # response.user /\ u.last_active = 0

----------------------------------------------------------------------------
(* UserUpdateSerializer; uid is the instance being updated *)

(* The username field of the ModelSerializer: the UniqueValidator that the *)
(* model field's unique=True gives it, an exact match that leaves the      *)
(* instance itself out.  The serializer has no validate_username.          *)
UserUpdateErrors(uid, username) ==
    IF \E u \in users : u.id # uid /\ u.username = username
    THEN {<<"username", "A user with that username already exists.">>}
    ELSE {}

(* update: setattr for each validated field, then instance.save() *)
update(uid, username) ==
    Outcome((users \ {UserById(uid)})
            \cup {[UserById(uid) EXCEPT !.username = username]},
            profiles, settings, Resp("user_update", 200, {}, uid))

(* An update request: is_valid(), then save() *)
UserUpdateResult(uid, username) ==
    LET errors == UserUpdateErrors(uid, username)
    IN  IF errors # {}
        THEN Outcome(users, profiles, settings, Resp("user_update", 400, errors, NoUser))
        ELSE update(uid, username)

UserUpdate(uid, username) ==
    /\ \E u \in users : u.id = uid
    /\ \E r \in {UserUpdateResult(uid, username)} :
         /\ users' = r.users
         /\ response' = r.response
    /\ UNCHANGED <<profiles, settings, backend, now, PartyTables>>

(* Registrations and user updates *)
UpdateNext ==
    \/ \E e \in Emails, n \in Usernames : Register(e, n, "pw1", "pw1", "none")
    \/ \E uid \in UserIds, n \in Usernames : UserUpdate(uid, n)

UpdateSpec == Init /\ [][UpdateNext]_vars

(* C14: after any sequence of registrations and user updates, no two       *)
(* stored Users have usernames that are equal when letter case is ignored. *)
(* Checked under UpdateSpec.                                               *)
C14_UsernameUniqueIgnoringCase ==
    \A u1 \in users, u2 \in users :
        u1.id # u2.id => Lower(u1.username) # Lower(u2.username)

====
